---- MODULE Spec2Model ----
(***************************************************************************)
(* A model of components/test_cloud_server/src/cluster.rs: the             *)
(* ServerCluster test harness (node registry, retry driver, transactional  *)
(* client facade, administrative operations).                              *)
(*                                                                         *)
(* The specifications share the variables:                                 *)
(*   Spec        the registry life cycle (new, start_node, stop_node,      *)
(*               stop, drop of the cluster);                               *)
(*   FacadeSpec  one facade call (put_kv, kv_prewrite, kv_commit) on a     *)
(*               cluster built by new(), with the retry driver's timer;    *)
(*               FacadeFairSpec adds the test thread's progress;           *)
(*   AdminSpec   wait_region_replicated and remove_node_peers on a live    *)
(*               cluster whose regions and engines change underneath;      *)
(*   LiveSpec    kv_prewrite, kv_commit and split on a live cluster;       *)
(*   ClusterSpec every call of the cluster, stop_node and the accessors    *)
(*               included, on a live cluster;                              *)
(*   EndpointSpec start_node over every node id the port format pads.      *)
(***************************************************************************)
EXTENDS Integers, Sequences, FiniteSets, TLC

VARIABLES
    servers,      \* ServerCluster.servers: node_id -> TiKVServer handle
    channels,     \* ServerCluster.channels: store_id -> Channel (its address)
    tmp_dir,      \* ServerCluster.tmp_dir: TRUE while the TempDir exists
    disk,         \* data directories under tmp_dir: path -> persisted store ident
    pd_alloc,     \* pd_client: the last id the metadata service allocated
    instances,    \* every TiKVServer ever set up: <<[node, store_id, stops]>>
    pc,           \* where the test thread is
    call,         \* the public call in progress and its locals
    tso,          \* pd_client: the last timestamp handed out by get_tso
    elapsed,      \* start.saturating_elapsed() of retry_req!, in milliseconds
    sent,         \* the requests the call in progress has issued, in order of
                  \* their first send (re-sends are counted by call.tried)
    regions,      \* pd_client: region id -> [start, end, version, peers, leader]
    engines,      \* kvengine of each store: store id -> region id -> shard version
    mvcc          \* the transactional data of the cluster: locks and committed
                  \* versions, as the kv service reads and writes them

regVars == <<servers, channels, tmp_dir, disk, pd_alloc, instances>>
threadVars == <<pc, call, tso, elapsed, sent>>
envVars == <<regions, engines, mvcc>>
vars == <<servers, channels, tmp_dir, disk, pd_alloc, instances,
          pc, call, tso, elapsed, sent, regions, engines, mvcc>>

----------------------------------------------------------------------------
(* Bounds of the model *)

\* node ids the test may pass are 1..MaxNode
MaxNode == 2
\* servers set up over the cluster's life
MaxStarts == 3
\* length of the node list given to new()
MaxNew == 2

Nodes == 1..MaxNode
StoreIds == 1..MaxNode

----------------------------------------------------------------------------
(* Small helpers on maps (HashMap insert / remove) *)

Insert(f, k, v) == [x \in (DOMAIN f) \cup {k} |-> IF x = k THEN v ELSE f[x]]

Remove(f, k) == [x \in (DOMAIN f) \ {k} |-> f[x]]

EmptyMap == [x \in {} |-> 0]

----------------------------------------------------------------------------
(* Endpoint derivation and the default test profile *)

RECURSIVE Decimal(_)
\* format!("{}", n): the decimal digits of n, most significant first
Decimal(n) == IF n < 10 THEN <<n>> ELSE Decimal(n \div 10) \o <<n % 10>>

\* format!("{}", n) in the place of the padded form
Unpadded(n) == Decimal(n)

\* format!("{:04}", n): zero-padded to at least four digits
Pad4(n) ==
    LET d == Decimal(n)
    IN  IF Len(d) >= 4 THEN d ELSE [i \in 1..(4 - Len(d)) |-> 0] \o d

node_addr(node_id) == [host |-> "127.0.0.1", port |-> <<2>> \o Pad4(node_id)]

node_status_addr(node_id) == [host |-> "127.0.0.1", port |-> <<3>> \o Pad4(node_id)]

\* the path <base>/<node_id>
DataDir(base, node_id) == [base |-> base, name |-> Decimal(node_id)]

new_test_config(base, node_id) ==
    [data_dir    |-> DataDir(base, node_id),
     cluster_id  |-> 1,
     addr        |-> node_addr(node_id),
     status_addr |-> node_status_addr(node_id),
     tick_ms     |-> 10]

\* the caller's override callback: it may retune the profile
UpdateConfs == {"noop", "slow_tick"}

update_conf(f, node_id, config) ==
    IF f = "slow_tick" THEN [config EXCEPT !.tick_ms = 100] ELSE config

----------------------------------------------------------------------------
(* The node registry: start_node, stop_node, stop, new *)

\* the registry part of the cluster state, as one value
Reg ==
    [servers |-> servers, channels |-> channels, disk |-> disk,
     pd_alloc |-> pd_alloc, instances |-> instances]

SetReg(r) ==
    /\ servers' = r.servers
    /\ channels' = r.channels
    /\ disk' = r.disk
    /\ pd_alloc' = r.pd_alloc
    /\ instances' = r.instances

EmptyReg ==
    [servers |-> EmptyMap, channels |-> EmptyMap, disk |-> EmptyMap,
     pd_alloc |-> 0, instances |-> <<>>]

\* std::fs::create_dir_all(&config.storage.data_dir): an existing directory
\* is left as it is, a new one holds no store ident yet (0)
create_dir_all(d, path) == IF path \in DOMAIN d THEN d ELSE Insert(d, path, 0)

\* TiKVServer::setup + run + get_store_id: the store bootstraps in its data
\* directory.  A directory that already holds a store ident gives that store
\* id again; a fresh one gets the next id of the metadata service.
server_store_id(r, d, path) == IF d[path] # 0 THEN d[path] ELSE r.pd_alloc + 1

\* a start_node that keys the channel by the node id instead of the store id
start_node_keyed_by_node(r, node_id, f) ==
    LET config   == update_conf(f, node_id, new_test_config("tmp", node_id))
        d        == create_dir_all(r.disk, config.data_dir)
        store_id == server_store_id(r, d, config.data_dir)
        server   == [store_id |-> store_id,
                     inst     |-> Len(r.instances) + 1,
                     config   |-> config]
    IN  [servers   |-> Insert(r.servers, node_id, server),
         channels  |-> Insert(r.channels, node_id, node_addr(node_id)),
         disk      |-> [d EXCEPT ![config.data_dir] = store_id],
         pd_alloc  |-> IF store_id > r.pd_alloc THEN store_id ELSE r.pd_alloc,
         instances |-> Append(r.instances,
                              [node |-> node_id, store_id |-> store_id,
                               data_dir |-> config.data_dir, stops |-> 0])]

start_node(r, node_id, f) ==
    LET config   == update_conf(f, node_id, new_test_config("tmp", node_id))
        d        == create_dir_all(r.disk, config.data_dir)
        store_id == server_store_id(r, d, config.data_dir)
        server   == [store_id |-> store_id,
                     inst     |-> Len(r.instances) + 1,
                     config   |-> config]
        channel  == node_addr(node_id)
    IN  [servers   |-> Insert(r.servers, node_id, server),
         channels  |-> Insert(r.channels, store_id, channel),
         disk      |-> [d EXCEPT ![config.data_dir] = store_id],
         pd_alloc  |-> IF store_id > r.pd_alloc THEN store_id ELSE r.pd_alloc,
         instances |-> Append(r.instances,
                              [node |-> node_id, store_id |-> store_id,
                               data_dir |-> config.data_dir, stops |-> 0])]

\* a stop_node that forgets the channel entry
stop_node_keeps_channel(r, node_id) ==
    IF node_id \in DOMAIN r.servers
    THEN LET node == r.servers[node_id]
         IN  [r EXCEPT !.servers = Remove(@, node_id),
                       !.instances[node.inst].stops = @ + 1]
    ELSE r

\* a stop_node that also wipes the node's data directory
stop_node_wipes_dir(r, node_id) ==
    IF node_id \in DOMAIN r.servers
    THEN LET node == r.servers[node_id]
         IN  [r EXCEPT !.servers = Remove(@, node_id),
                       !.channels = Remove(@, node.store_id),
                       !.disk = Remove(@, node.config.data_dir),
                       !.instances[node.inst].stops = @ + 1]
    ELSE r

\* a stop_node that, for an unknown node, stops the last server that ran
\* under that id once more
stop_node_stops_unknown(r, node_id) ==
    IF node_id \in DOMAIN r.servers
    THEN LET node == r.servers[node_id]
         IN  [r EXCEPT !.servers = Remove(@, node_id),
                       !.channels = Remove(@, node.store_id),
                       !.instances[node.inst].stops = @ + 1]
    ELSE LET old == {i \in 1..Len(r.instances) : r.instances[i].node = node_id}
         IN  IF old = {} THEN r
             ELSE LET last == CHOOSE i \in old : \A j \in old : j <= i
                  IN  [r EXCEPT !.instances[last].stops = @ + 1]

\* a stop_node that closes every channel of the cluster
stop_node_closes_all(r, node_id) ==
    IF node_id \in DOMAIN r.servers
    THEN LET node == r.servers[node_id]
         IN  [r EXCEPT !.servers = Remove(@, node_id),
                       !.channels = EmptyMap,
                       !.instances[node.inst].stops = @ + 1]
    ELSE r

stop_node(r, node_id) ==
    IF node_id \in DOMAIN r.servers
    THEN LET node     == r.servers[node_id]
             store_id == node.store_id
         IN  [r EXCEPT !.servers = Remove(@, node_id),
                       !.channels = Remove(@, store_id),
                       !.instances[node.inst].stops = @ + 1]
    ELSE r

get_nodes(r) == DOMAIN r.servers

get_stores(r) == DOMAIN r.channels

RECURSIVE stop_all(_, _)
\* the loop of stop(): stop_node for every node id of the snapshot `nodes`
stop_all(r, nodes) ==
    IF nodes = {} THEN r
    ELSE LET n == CHOOSE x \in nodes : TRUE
         IN  stop_all(stop_node(r, n), nodes \ {n})

\* a stop that stops one of the registered nodes only
stop_one(r) ==
    IF get_nodes(r) = {} THEN r
    ELSE stop_node(r, CHOOSE n \in get_nodes(r) : TRUE)

stop(r) == stop_all(r, get_nodes(r))

RECURSIVE new_nodes(_, _, _)
\* the loop of new(): start_node for every node id of the list, in order
new_nodes(r, nodes, f) ==
    IF nodes = <<>> THEN r
    ELSE new_nodes(start_node(r, Head(nodes), f), Tail(nodes), f)

new(nodes, f) == new_nodes(EmptyReg, nodes, f)

\* the node lists new() is given here: every list of at most MaxNew ids,
\* repeated ids included
NodeLists == UNION {[1..k -> Nodes] : k \in 0..MaxNew}

\* what a registry call leaves behind for the properties: the call and the
\* registry it was made on
Called(op, node_id) ==
    [op |-> op, node_id |-> node_id, pre |-> Reg]

NoCall == [op |-> "new", node_id |-> 0, pre |-> EmptyReg]

----------------------------------------------------------------------------
(* The registry life cycle: specification Spec *)

\* the state new(nodes, f) returns
Constructed(nodes, f) ==
    LET r == new(nodes, f)
    IN  /\ servers = r.servers
        /\ channels = r.channels
        /\ disk = r.disk
        /\ pd_alloc = r.pd_alloc
        /\ instances = r.instances
        /\ tmp_dir = TRUE

\* no lock and no committed version
NoData == [locks |-> EmptyMap, writes |-> {}]

\* nothing of the metadata service's regions, of the engines or of the data
\* is used by the registry calls
NoRegions == regions = EmptyMap /\ engines = EmptyMap /\ mvcc = NoData

ThreadIdle ==
    /\ pc = "idle"
    /\ call = NoCall
    /\ elapsed = 0
    /\ sent = <<>>

Init ==
    /\ \E nodes \in NodeLists, f \in UpdateConfs : Constructed(nodes, f)
    /\ ThreadIdle
    /\ tso = 0
    /\ NoRegions

\* the cluster is alive and the test thread is between two calls
Callable == pc = "idle" /\ tmp_dir

StartNode(node_id, f) ==
    /\ Callable
    /\ Len(instances) < MaxStarts
    /\ SetReg(start_node(Reg, node_id, f))
    /\ call' = Called("start_node", node_id)
    /\ UNCHANGED <<tmp_dir, pc, tso, elapsed, sent, envVars>>

StopNode(node_id) ==
    /\ Callable
    /\ SetReg(stop_node(Reg, node_id))
    /\ call' = Called("stop_node", node_id)
    /\ UNCHANGED <<tmp_dir, pc, tso, elapsed, sent, envVars>>

Stop ==
    /\ Callable
    /\ SetReg(stop(Reg))
    /\ call' = Called("stop", 0)
    /\ UNCHANGED <<tmp_dir, pc, tso, elapsed, sent, envVars>>

\* the cluster value goes out of scope: its maps are dropped (no server's
\* stop routine runs) and the TempDir removes the directory tree
Drop ==
    /\ Callable
    /\ servers' = EmptyMap
    /\ channels' = EmptyMap
    /\ disk' = EmptyMap
    /\ tmp_dir' = FALSE
    /\ pc' = "dropped"
    /\ call' = Called("drop", 0)
    /\ UNCHANGED <<pd_alloc, instances, tso, elapsed, sent, envVars>>

Next ==
    \/ \E node_id \in Nodes, f \in UpdateConfs : StartNode(node_id, f)
    \/ \E node_id \in Nodes : StopNode(node_id)
    \/ Stop
    \/ Drop

Spec == Init /\ [][Next]_vars

----------------------------------------------------------------------------
(* Properties of the registry *)

\* the store ids of the servers in a server map
StoresOf(srv) == {srv[n].store_id : n \in DOMAIN srv}

\* C1: in every state the registry reaches through new / start_node /
\* stop_node / stop, the channel map's keys are exactly the store ids of the
\* servers in the server map, and distinct nodes have distinct store ids:
\* every node is in both maps or in neither.
C1_RegistryConsistent ==
    /\ DOMAIN channels = StoresOf(servers)
    /\ \A n, m \in DOMAIN servers :
           servers[n].store_id = servers[m].store_id => n = m

\* C1's case: start_node ran on a node id that was already registered
C1_Witness ==
    /\ call.op = "start_node"
    /\ call.node_id \in DOMAIN call.pre.servers
    /\ Cardinality(DOMAIN servers) = 2

\* C2: after stop_node(n), n is not in the node set and the store id that
\* n's server reported is not in the channel set.
C2_StopNodeRemoves ==
    call.op = "stop_node" =>
        /\ call.node_id \notin get_nodes(Reg)
        /\ call.node_id \in DOMAIN call.pre.servers =>
               call.pre.servers[call.node_id].store_id \notin get_stores(Reg)

\* C2's case: stop_node ran on a registered node while another stayed
C2_Witness ==
    /\ call.op = "stop_node"
    /\ call.node_id \in DOMAIN call.pre.servers
    /\ servers # EmptyMap

\* C3: stop_node on a node that is not registered changes neither map and
\* invokes no server's stop routine; no server is ever stopped twice, and
\* stop_node on a registered node stops exactly that server, once.
C3_StopNodeIdempotent ==
    /\ \A i \in 1..Len(instances) : instances[i].stops <= 1
    /\ call.op = "stop_node" =>
           IF call.node_id \in DOMAIN call.pre.servers
           THEN LET inst == call.pre.servers[call.node_id].inst
                IN  /\ instances[inst].stops = 1
                    /\ \A i \in 1..Len(instances) :
                           i # inst => instances[i] = call.pre.instances[i]
           ELSE /\ servers = call.pre.servers
                /\ channels = call.pre.channels
                /\ instances = call.pre.instances

\* C3's case: the second stop_node of a node that was started and stopped
C3_Witness ==
    /\ call.op = "stop_node"
    /\ call.node_id \notin DOMAIN call.pre.servers
    /\ \E i \in 1..Len(instances) :
           instances[i].node = call.node_id /\ instances[i].stops = 1

\* the servers that were registered when the call was made
RegisteredBefore == {call.pre.servers[n].inst : n \in DOMAIN call.pre.servers}

\* C18: after stop() both maps are empty, every server that was registered
\* when stop() was called has had its stop routine invoked exactly once, and
\* no other server's stop routine was invoked by the call.
C18_StopEmptiesCluster ==
    call.op = "stop" =>
        /\ get_nodes(Reg) = {}
        /\ get_stores(Reg) = {}
        /\ Len(instances) = Len(call.pre.instances)
        /\ \A i \in 1..Len(instances) :
               IF i \in RegisteredBefore
               THEN call.pre.instances[i].stops = 0 /\ instances[i].stops = 1
               ELSE instances[i] = call.pre.instances[i]

\* C18's case: stop() on two registered nodes, one of them started twice,
\* the other cluster calls having come before
C18_Witness ==
    /\ call.op = "stop"
    /\ Cardinality(DOMAIN call.pre.servers) = 2
    /\ \E i \in 1..Len(instances) : i \notin RegisteredBefore

\* the servers that ran under node_id before the call and were stopped
StoppedBefore(node_id) ==
    {i \in 1..Len(call.pre.instances) :
        /\ call.pre.instances[i].node = node_id
        /\ call.pre.instances[i].stops = 1}

\* C10: start_node(n) on a node that was started and then stopped leaves n
\* registered, its store id in the channel map and no stale channel entry;
\* it runs in the data directory <tmp>/<n> of the first start, which still
\* existed (the temp directory is alive) when the second start was made.
C10_RestartRoundTrip ==
    (/\ call.op = "start_node"
     /\ call.node_id \notin DOMAIN call.pre.servers
     /\ StoppedBefore(call.node_id) # {})
    => /\ call.node_id \in DOMAIN servers
       /\ servers[call.node_id].store_id \in DOMAIN channels
       /\ DOMAIN channels = StoresOf(servers)
       /\ tmp_dir
       /\ servers[call.node_id].config.data_dir = DataDir("tmp", call.node_id)
       /\ servers[call.node_id].config.data_dir \in DOMAIN call.pre.disk
       /\ \A i \in StoppedBefore(call.node_id) :
              call.pre.instances[i].data_dir = servers[call.node_id].config.data_dir

\* C10's case: start, stop, start of the same node
C10_Witness ==
    /\ call.op = "start_node"
    /\ call.node_id \notin DOMAIN call.pre.servers
    /\ StoppedBefore(call.node_id) # {}
    /\ call.node_id \in DOMAIN servers

----------------------------------------------------------------------------
(* The metadata service as the facade uses it *)

\* indices a put_kv range is drawn from are 0..MaxIdx
MaxIdx == 2
\* timestamps a direct kv_prewrite / kv_commit call passes are 1..MaxTs
MaxTs == 2
\* one RPC takes 0 or MaxRpcMs milliseconds
MaxRpcMs == 200

Idx == 0..MaxIdx
Keys == 1..(MaxIdx + 1)
KeyEnd == MaxIdx + 2
RpcMs == {0, MaxRpcMs}

\* the ids of the regions whose range holds key
get_region_info(rs, key) ==
    {id \in DOMAIN rs : rs[id].start <= key /\ key < rs[id].end}

NoContext == [region_id |-> 0, version |-> 0, store_id |-> 0]

\* new_rpc_context: "no_region" / "no_leader" where an unwrap panics,
\* otherwise the context (region id, epoch, leader peer)
new_rpc_context(rs, key) ==
    LET found == get_region_info(rs, key)
    IN  IF found = {} THEN [ok |-> FALSE, why |-> "no_region", ctx |-> NoContext]
        ELSE LET id == CHOOSE x \in found : TRUE
             IN  IF rs[id].leader = 0
                 THEN [ok |-> FALSE, why |-> "no_leader", ctx |-> NoContext]
                 ELSE [ok |-> TRUE, why |-> "",
                       ctx |-> [region_id |-> id, version |-> rs[id].version,
                                store_id |-> rs[id].leader]]

\* a channel lookup that finds a channel for every store id
has_channel_any(store_id) == TRUE

\* get_client_channel: channels.get(&store_id).unwrap()
has_channel(store_id) == store_id \in DOMAIN channels

\* the server of store_id is registered (its background threads run)
StoreRuns(store_id) == \E n \in DOMAIN servers : servers[n].store_id = store_id

\* get_ts: the metadata service's oracle is strictly increasing
get_ts(t) == t + 1

----------------------------------------------------------------------------
(* The retry driver, retry_req! *)

RetryTimes == 10
RetryTimeoutMs == 3000
RetrySleepMs == 200

\* a loop condition that gives up as soon as one budget is exhausted
retry_continue_either(tried_times, el) ==
    tried_times < RetryTimes /\ el < RetryTimeoutMs

\* the loop condition: tried_times < $retry || elapsed < timeout
retry_continue(tried_times, el) ==
    tried_times < RetryTimes \/ el < RetryTimeoutMs

\* a response: has_region_error(), and errors non-empty / has_error()
Responses == [region_error : BOOLEAN, error : BOOLEAN]

NoResponse == [region_error |-> FALSE, error |-> FALSE]

\* a success predicate that looks at the region error only
check_resp_region_only(resp) == ~resp.region_error

\* $check_resp of both callers: neither a region error nor an error
check_resp(resp) == ~resp.region_error /\ ~resp.error

----------------------------------------------------------------------------
(* The transactional client facade: kv_prewrite, kv_commit, put_kv *)

KeyFns == {"distinct", "same"}
ValFns == {"val"}

\* the caller's generators: index -> key, index -> value
gen_key(F, i) == IF F = "distinct" THEN i + 1 ELSE 1

gen_val(G, i) == 10 + i

\* a loop that leaves out the first index of the range
put_kv_mutations_skips_first(start, end, F, G) ==
    IF end <= start + 1 THEN <<>>
    ELSE [j \in 1..(end - start - 1) |->
             [op |-> "Put", key |-> gen_key(F, start + j),
              value |-> gen_val(G, start + j)]]

\* for i in rng.clone(): one Put per index of start..end
put_kv_mutations(start, end, F, G) ==
    IF end <= start THEN <<>>
    ELSE [j \in 1..(end - start) |->
             [op |-> "Put", key |-> gen_key(F, start + j - 1),
              value |-> gen_val(G, start + j - 1)]]

\* mutations.iter().map(|m| m.get_key().to_vec()).collect()
mutation_keys(muts) == [j \in 1..Len(muts) |-> muts[j].key]

prewrite_request(ctx, muts, pk, ts) ==
    [context |-> ctx, mutations |-> muts, primary_lock |-> pk,
     start_version |-> ts, lock_ttl |-> 3000, min_commit_ts |-> ts + 1]

commit_request(ctx, keys, start_ts, commit_ts) ==
    [context |-> ctx, start_version |-> start_ts, keys |-> keys,
     commit_version |-> commit_ts]

----------------------------------------------------------------------------
(* The kv service of the stores: what the leader of a region answers to    *)
(* kv_prewrite and kv_commit                                               *)

\* the region of the request's context is still as the context says, its
\* leader runs on the store the request went to, and every key of the
\* request lies in the region's range
serves(rs, ctx, keys) ==
    /\ ctx.region_id \in DOMAIN rs
    /\ rs[ctx.region_id].version = ctx.version
    /\ rs[ctx.region_id].leader = ctx.store_id
    /\ StoreRuns(ctx.store_id)
    /\ \A j \in 1..Len(keys) :
           rs[ctx.region_id].start <= keys[j] /\ keys[j] < rs[ctx.region_id].end

RECURSIVE prewrite_keys(_, _, _)
\* the mutations are locked one after another at the start timestamp; a key
\* this transaction has locked already keeps its first lock and value; a
\* lock of another transaction or a later committed version is a key error
prewrite_keys(m, muts, ts) ==
    IF muts = <<>> THEN [ok |-> TRUE, m |-> m]
    ELSE LET key == Head(muts).key
         IN  IF key \in DOMAIN m.locks
             THEN IF m.locks[key].ts = ts
                  THEN prewrite_keys(m, Tail(muts), ts)
                  ELSE [ok |-> FALSE, m |-> m]
             ELSE IF \E w \in m.writes : w.key = key /\ w.commit_ts >= ts
                  THEN [ok |-> FALSE, m |-> m]
                  ELSE prewrite_keys(
                           [m EXCEPT !.locks =
                               Insert(@, key, [ts |-> ts, value |-> Head(muts).value])],
                           Tail(muts), ts)

RECURSIVE commit_keys(_, _, _, _)
\* the lock of each key becomes a committed version at commit_ts; a key
\* this transaction has committed already is left alone; a key without the
\* transaction's lock, or a commit_ts that is not after start_ts, is an error
commit_keys(m, keys, start_ts, commit_ts) ==
    IF commit_ts <= start_ts THEN [ok |-> FALSE, m |-> m]
    ELSE IF keys = <<>> THEN [ok |-> TRUE, m |-> m]
    ELSE LET key == Head(keys)
         IN  IF key \in DOMAIN m.locks /\ m.locks[key].ts = start_ts
             THEN commit_keys(
                      [locks  |-> Remove(m.locks, key),
                       writes |-> m.writes \cup
                                  {[key |-> key, start_ts |-> start_ts,
                                    commit_ts |-> commit_ts,
                                    value |-> m.locks[key].value]}],
                      Tail(keys), start_ts, commit_ts)
             ELSE IF \E w \in m.writes : w.key = key /\ w.start_ts = start_ts
                  THEN commit_keys(m, Tail(keys), start_ts, commit_ts)
                  ELSE [ok |-> FALSE, m |-> m]

\* the outcomes of one request: the response and the data after it.  A
\* request the region cannot serve gets a region error; one it can serve
\* is applied and answered without error, or is answered with an error
\* (transient or of a key) and leaves the data as they were
kv_service(rs, m, r) ==
    LET keys == IF r.rpc = "kv_prewrite" THEN mutation_keys(r.req.mutations)
                ELSE r.req.keys
        out  == IF r.rpc = "kv_prewrite"
                THEN prewrite_keys(m, r.req.mutations, r.req.start_version)
                ELSE commit_keys(m, r.req.keys, r.req.start_version,
                                 r.req.commit_version)
    IN  IF ~serves(rs, r.req.context, keys)
        THEN {[resp |-> [region_error |-> TRUE, error |-> FALSE], m |-> m]}
        ELSE {[resp |-> resp, m |-> m] : resp \in Responses \ {NoResponse}}
             \cup (IF out.ok THEN {[resp |-> NoResponse, m |-> out.m]} ELSE {})

\* a snapshot read of key at timestamp ts: the value of the latest version
\* committed at or before ts, 0 where there is none
snapshot_get(m, key, ts) ==
    LET vs == {w \in m.writes : w.key = key /\ w.commit_ts <= ts}
    IN  IF vs = {} THEN 0
        ELSE (CHOOSE w \in vs : \A x \in vs : x.commit_ts <= w.commit_ts).value

\* a put_kv that commits at the start timestamp again
put_kv_commit_reuses_start(c, ts) ==
    [c EXCEPT !.commit_ts = c.start_ts, !.phase = "commit"]

\* put_kv after kv_prewrite returned: commit_ts = get_ts(), then
\* kv_commit(keys, start_ts, commit_ts)
put_kv_commit(c, ts) ==
    [c EXCEPT !.commit_ts = ts, !.phase = "commit"]

\* the locals of a facade call
FacadeCall(op) ==
    [op |-> op, rng |-> <<0, 0>>, gen_key |-> "", gen_val |-> "",
     key_calls |-> 0, val_calls |-> 0,
     muts |-> <<>>, pk |-> 0, keys |-> <<>>, start_ts |-> 0, commit_ts |-> 0,
     phase |-> "prewrite", ctx |-> NoContext, resp |-> NoResponse,
     tried |-> 0, resolved |-> 0, sends |-> 0, region_errors |-> 0,
     why |-> ""]

Rpc(name, req) == [rpc |-> name, req |-> req]

Panic(why) ==
    /\ pc' = "panicked"
    /\ call' = [call EXCEPT !.why = why]

\* the unwrap of an RPC that failed: the request was sent, no response came
RpcFailed ==
    /\ pc' = "panicked"
    /\ call' = [call EXCEPT !.why = "rpc_failed", !.sends = @ + 1]

\* put_kv up to its call of kv_prewrite
CallPutKv(start, end, F, G) ==
    /\ Callable
    /\ LET muts == put_kv_mutations(start, end, F, G)
       IN  /\ tso' = get_ts(tso)
           /\ sent' = <<Rpc("get_tso", tso')>>
           /\ call' = [FacadeCall("put_kv") EXCEPT
                          !.rng = <<start, end>>, !.gen_key = F, !.gen_val = G,
                          !.key_calls = 1 + Len(muts), !.val_calls = Len(muts),
                          !.pk = gen_key(F, start), !.start_ts = tso',
                          !.muts = muts, !.keys = mutation_keys(muts)]
    /\ pc' = "ctx"
    /\ UNCHANGED <<regVars, elapsed, envVars>>

CallKvPrewrite(muts, pk, ts) ==
    /\ Callable
    /\ call' = [FacadeCall("kv_prewrite") EXCEPT
                   !.muts = muts, !.pk = pk, !.start_ts = ts]
    /\ sent' = <<>>
    /\ pc' = "ctx"
    /\ UNCHANGED <<regVars, tso, elapsed, envVars>>

CallKvCommit(keys, start_ts, commit_ts) ==
    /\ Callable
    /\ call' = [FacadeCall("kv_commit") EXCEPT
                   !.keys = keys, !.start_ts = start_ts,
                   !.commit_ts = commit_ts, !.phase = "commit"]
    /\ sent' = <<>>
    /\ pc' = "ctx"
    /\ UNCHANGED <<regVars, tso, elapsed, envVars>>

\* the first two lines of kv_prewrite / kv_commit: the RPC context of the
\* primary key / of keys.first().unwrap(), and the leader store's client
ResolveContext ==
    /\ pc = "ctx"
    /\ IF call.phase = "commit" /\ call.keys = <<>>
       THEN Panic("no_first_key") /\ UNCHANGED sent
       ELSE LET key == IF call.phase = "commit" THEN Head(call.keys) ELSE call.pk
                got == new_rpc_context(regions, key)
            IN  /\ sent' = Append(sent, Rpc("get_region_info", key))
                /\ IF ~got.ok THEN Panic(got.why)
                   ELSE IF ~has_channel(got.ctx.store_id) THEN Panic("no_channel")
                   ELSE /\ pc' = "send"
                        /\ call' = [call EXCEPT !.ctx = got.ctx,
                                                !.resolved = @ + 1]
    /\ UNCHANGED <<regVars, tso, elapsed, envVars>>

\* the request kv_prewrite / kv_commit builds
Request ==
    IF call.phase = "prewrite"
    THEN Rpc("kv_prewrite",
             prewrite_request(call.ctx, call.muts, call.pk, call.start_ts))
    ELSE Rpc("kv_commit",
             commit_request(call.ctx, call.keys, call.start_ts, call.commit_ts))

\* the first send, before retry_req!; `start` is taken right after it
SendFirst ==
    /\ pc = "send"
    /\ sent' = Append(sent, Request)
    /\ \/ \E out \in kv_service(regions, mvcc, Request) :
              /\ call' = [call EXCEPT !.resp = out.resp, !.tried = 0,
                                      !.sends = @ + 1]
              /\ mvcc' = out.m
              /\ elapsed' = 0
              /\ pc' = "retry"
       \/ RpcFailed /\ UNCHANGED <<elapsed, mvcc>>
    /\ UNCHANGED <<regVars, tso, regions, engines>>

\* one evaluation of the loop condition of retry_req! and what follows it
RetryStep ==
    /\ pc = "retry"
    /\ IF retry_continue(call.tried, elapsed)
       THEN IF check_resp(call.resp)
            THEN pc' = "assert" /\ UNCHANGED <<call, elapsed, mvcc>>
            ELSE \E ms \in RpcMs :
                    /\ elapsed' = elapsed + RetrySleepMs + ms
                    /\ \/ \E out \in kv_service(regions, mvcc, Request) :
                              /\ call' = [call EXCEPT !.resp = out.resp,
                                                      !.tried = @ + 1,
                                                      !.sends = @ + 1]
                              /\ mvcc' = out.m
                              /\ pc' = "retry"
                       \/ RpcFailed /\ UNCHANGED mvcc
       ELSE pc' = "assert" /\ UNCHANGED <<call, elapsed, mvcc>>
    /\ UNCHANGED <<regVars, tso, sent, regions, engines>>

\* asserts that let per-key errors pass
assert_response_region_only(resp) ==
    IF resp.region_error THEN "region_error" ELSE "ok"

\* assert!(!resp.has_region_error()); assert!(resp.errors.is_empty()) of
\* kv_prewrite, and the same two of kv_commit: the assert that fails
assert_response(resp) ==
    IF resp.region_error THEN "region_error"
    ELSE IF resp.error THEN "error"
    ELSE "ok"

\* the two assert! after retry_req!, and the return
AssertResponse ==
    /\ pc = "assert"
    /\ IF assert_response(call.resp) # "ok"
       THEN Panic(assert_response(call.resp))
       ELSE /\ pc' = IF call.op = "put_kv" /\ call.phase = "prewrite"
                     THEN "commit_ts" ELSE "done"
            /\ UNCHANGED call
    /\ UNCHANGED <<regVars, tso, elapsed, sent, envVars>>

\* put_kv after kv_prewrite returned; kv_commit counts its own context
\* resolutions and sends
PutKvCommit ==
    /\ pc = "commit_ts"
    /\ tso' = get_ts(tso)
    /\ sent' = Append(sent, Rpc("get_tso", tso'))
    /\ call' = [put_kv_commit(call, tso') EXCEPT !.resolved = 0, !.sends = 0]
    /\ pc' = "ctx"
    /\ UNCHANGED <<regVars, elapsed, envVars>>

----------------------------------------------------------------------------
(* One facade call on a constructed cluster: specification FacadeSpec *)

\* the node list the cluster of the facade and admin specifications is
\* built from
ClusterNodes == <<1, 2>>

\* the registries a call is made on: new([]), new([1, 2]), and new([1, 2])
\* after stop_node(1)
ClusterRegistries ==
    {new(<<>>, "noop"), new(ClusterNodes, "noop"),
     stop_node(new(ClusterNodes, "noop"), 1)}

\* the stores that ever booted in registry r
BootedStores(r) == {r.instances[i].store_id : i \in 1..Len(r.instances)}

\* the metadata service after bootstrap: one region over all keys, a peer
\* on every store
BootRegion(stores, leader) ==
    [start |-> 1, end |-> KeyEnd, version |-> 1, peers |-> stores,
     leader |-> leader]

\* a shard of the engine: get_all_shard_id_vers() lists these
Shard(id, ver) == [id |-> id, ver |-> ver]

OnCluster(r) ==
    /\ servers = r.servers
    /\ channels = r.channels
    /\ disk = r.disk
    /\ pd_alloc = r.pd_alloc
    /\ instances = r.instances
    /\ tmp_dir = TRUE

\* the key the two-region layout is split at
SplitKey == 2

\* the metadata service after the boot region was split at SplitKey: region
\* 1 keeps the keys below it, the new region 2 has the keys from it on, and
\* both are at the next version
SplitRegions(stores, leader) ==
    (1 :> [BootRegion(stores, leader) EXCEPT !.end = SplitKey, !.version = 2])
    @@ (2 :> [BootRegion(stores, leader) EXCEPT !.start = SplitKey, !.version = 2])

\* a cluster built by new(), with the boot region whole or split in two
ClusterInit(layouts) ==
    /\ \E r \in ClusterRegistries :
          /\ OnCluster(r)
          /\ IF BootedStores(r) = {}
             THEN NoRegions
             ELSE /\ \E leader \in BootedStores(r) \cup {0}, layout \in layouts :
                        IF layout = "whole"
                        THEN /\ regions = (1 :> BootRegion(BootedStores(r), leader))
                             /\ engines = [s \in BootedStores(r) |-> {Shard(1, 1)}]
                        ELSE /\ regions = SplitRegions(BootedStores(r), leader)
                             /\ engines = [s \in BootedStores(r) |->
                                               {Shard(1, 2), Shard(2, 2)}]
                  /\ mvcc = NoData
    /\ ThreadIdle
    /\ tso = 0

FacadeInit == ClusterInit({"whole", "split"})

Put(key, value) == [op |-> "Put", key |-> key, value |-> value]

\* what the test passes to kv_prewrite and kv_commit
DirectMutations == {<<Put(1, 10)>>, <<Put(1, 10), Put(2, 11)>>}
DirectKeys == {<<>>, <<1>>, <<1, 2>>}
Timestamps == 1..MaxTs

DirectCalls ==
    \/ \E muts \in DirectMutations, pk \in {1, 2}, ts \in Timestamps :
           CallKvPrewrite(muts, pk, ts)
    \/ \E keys \in DirectKeys, start_ts \in Timestamps, commit_ts \in Timestamps :
           CallKvCommit(keys, start_ts, commit_ts)

FacadeSteps ==
    \/ ResolveContext
    \/ SendFirst
    \/ RetryStep
    \/ AssertResponse

FacadeNext ==
    \/ \E start \in Idx, end \in Idx, F \in KeyFns, G \in ValFns :
           CallPutKv(start, end, F, G)
    \/ PutKvCommit
    \/ DirectCalls
    \/ FacadeSteps

FacadeSpec == FacadeInit /\ [][FacadeNext]_vars

\* the direct calls alone, with the test thread running on: sleep and the
\* blocking RPC of retry_req! return, so the loop is always stepped
FairNext == DirectCalls \/ FacadeSteps

FacadeFairSpec == FacadeInit /\ [][FairNext]_vars /\ WF_vars(RetryStep)

----------------------------------------------------------------------------
(* Properties of the facade and of the retry driver *)

EmptyRange(rng) == rng[2] <= rng[1]

Requests(name) == {i \in 1..Len(sent) : sent[i].rpc = name}

\* C6: a put_kv on an empty index range issues no RPC at all, calls neither
\* generator function and does not panic.
C6_EmptyRangeNoop ==
    (call.op = "put_kv" /\ EmptyRange(call.rng)) =>
        /\ sent = <<>>
        /\ call.key_calls = 0
        /\ call.val_calls = 0
        /\ pc # "panicked"

\* C7: the retry loop is left for the asserts only when the current result
\* passes the success predicate or both budgets are exhausted (R re-attempts
\* made and T elapsed); while the result fails and one budget remains it
\* goes round again; and it is always left in the end.
C7_RetryTermination ==
    /\ [](pc = "assert" =>
             \/ check_resp(call.resp)
             \/ call.tried >= RetryTimes /\ elapsed >= RetryTimeoutMs)
    /\ [][(pc = "retry" /\ pc' = "assert") <=>
          (pc = "retry" /\ (\/ check_resp(call.resp)
                            \/ call.tried >= RetryTimes /\ elapsed >= RetryTimeoutMs))]_vars
    /\ [][(pc = "retry" /\ pc' = "retry") => call'.tried = call.tried + 1
                                             /\ elapsed' >= elapsed + RetrySleepMs]_vars
    /\ (pc = "retry") ~> (pc # "retry")

\* C7's case: the attempts ran out first and the loop went on until the
\* timeout had elapsed too
C7_Witness ==
    /\ pc = "assert"
    /\ ~check_resp(call.resp)
    /\ call.tried > RetryTimes
    /\ elapsed >= RetryTimeoutMs

\* C8: in a put_kv call the primary key of the prewrite request is the key
\* of one of its mutations, and the commit request carries exactly the keys
\* of the prewrite's mutations, in order.
C8_PutKvKeySets ==
    call.op = "put_kv" =>
        /\ \A i \in Requests("kv_prewrite") :
               \E j \in 1..Len(sent[i].req.mutations) :
                   sent[i].req.mutations[j].key = sent[i].req.primary_lock
        /\ \A i \in Requests("kv_commit") :
               \E k \in Requests("kv_prewrite") :
                   /\ k < i
                   /\ sent[i].req.keys = mutation_keys(sent[k].req.mutations)

\* C9 as claimed: every commit request sent has commit_ts > start_ts.
C9_CommitAfterStart ==
    \A i \in Requests("kv_commit") :
        sent[i].req.commit_version > sent[i].req.start_version

\* C9 as amended: every commit request put_kv sends has commit_ts >
\* start_ts; a commit request of a direct kv_commit call carries the
\* caller's two timestamps as they were passed.
C9_PutKvCommitAfterStart ==
    \A i \in Requests("kv_commit") :
        IF call.op = "put_kv"
        THEN sent[i].req.commit_version > sent[i].req.start_version
        ELSE /\ sent[i].req.commit_version = call.commit_ts
             /\ sent[i].req.start_version = call.start_ts

\* C9's case: a put_kv got as far as sending its commit request
C9_Witness ==
    /\ call.op = "put_kv"
    /\ Requests("kv_commit") # {}
    /\ pc = "done"

\* a response with neither a region error nor per-key errors
CleanResponse(resp) == resp.region_error = FALSE /\ resp.error = FALSE

\* a response has been received and it is the one in call.resp
Answered == call.sends >= 1 /\ pc \in {"retry", "assert", "done", "panicked"}

\* C15: in kv_prewrite a response with a region error or per-key errors is
\* followed by another send while the retry budget lasts, without a panic
\* on that response; after a clean response no further prewrite is sent and
\* the call returns; the call returns only on a clean last response, and
\* with the budget used up and the last response not clean it panics.
C15_PrewriteOutcome ==
    /\ [](call.op = "kv_prewrite" =>
             /\ pc = "done" => CleanResponse(call.resp) /\ call.sends >= 1
             /\ (pc = "panicked" /\ call.why \in {"region_error", "error"}) =>
                    /\ ~CleanResponse(call.resp)
                    /\ call.tried >= RetryTimes /\ elapsed >= RetryTimeoutMs
             /\ (pc = "panicked" /\ call.why = "rpc_failed" /\ call.sends > 1) =>
                    ~CleanResponse(call.resp))
    /\ [][(call.op = "kv_prewrite" /\ Answered /\ CleanResponse(call.resp)) =>
              (call'.sends = call.sends /\ pc' \in {"assert", "done"})]_vars
    /\ [][(call.op = "kv_prewrite" /\ pc = "retry" /\ ~CleanResponse(call.resp)
           /\ (call.tried < RetryTimes \/ elapsed < RetryTimeoutMs)) =>
              (/\ call'.sends = call.sends + 1
               /\ pc' = "retry" \/ (pc' = "panicked" /\ call'.why = "rpc_failed"))]_vars
    /\ [][(call.op = "kv_prewrite" /\ pc = "assert" /\ ~CleanResponse(call.resp)) =>
              (pc' = "panicked" /\ call'.resp = call.resp)]_vars

\* C15's case: kv_prewrite returned on its third response, the first two
\* having carried a region error and a key error
C15_Witness ==
    /\ call.op = "kv_prewrite" /\ pc = "done"
    /\ call.tried = 2
    /\ call.sends = 3

\* the index in sent of the first request named name, 0 if there is none
First(name) ==
    IF Requests(name) = {} THEN 0
    ELSE CHOOSE i \in Requests(name) : \A j \in Requests(name) : i <= j

\* the index in sent of the last request named name, 0 if there is none
Last(name) ==
    IF Requests(name) = {} THEN 0
    ELSE CHOOSE i \in Requests(name) : \A j \in Requests(name) : j <= i

\* C17: in a put_kv call the start timestamp is obtained before the prewrite
\* is sent; the commit timestamp is obtained only after kv_prewrite returned,
\* its last response clean; a commit request is sent only after that, never
\* for a prewrite that panicked; and the commit request has commit_ts >
\* start_ts, the two timestamps of the call in the order they were obtained.
C17_PutKvOrdering ==
    /\ [](call.op = "put_kv" =>
             /\ First("get_tso") = 1
             /\ Cardinality(Requests("get_tso")) <= 2
             /\ sent[1].req = call.start_ts
             /\ \A i \in Requests("kv_prewrite") :
                    /\ sent[i].req.start_version = call.start_ts
                    /\ 1 < i
                    /\ Last("get_tso") > 1 => i < Last("get_tso")
             /\ \A i \in Requests("kv_commit") :
                    /\ Requests("kv_prewrite") # {}
                    /\ Last("get_tso") > Last("kv_prewrite")
                    /\ Last("get_tso") < i
                    /\ sent[i].req.start_version = sent[1].req
                    /\ sent[i].req.commit_version = sent[Last("get_tso")].req
                    /\ sent[i].req.commit_version > sent[i].req.start_version
             /\ call.phase = "prewrite" =>
                    Requests("kv_commit") = {} /\ call.commit_ts = 0
             /\ pc = "commit_ts" =>
                    /\ CleanResponse(call.resp)
                    /\ Requests("kv_prewrite") # {}
                    /\ call.phase = "prewrite")
    /\ [][(call.op = "put_kv" /\ call'.op = "put_kv" /\ tso' # tso) =>
              (/\ pc = "commit_ts" /\ CleanResponse(call.resp)
               /\ tso' > tso /\ call'.commit_ts = tso')]_vars

\* C17's case: a put_kv of two keys got its commit timestamp after the
\* prewrite and sent its commit
C17_Witness ==
    /\ call.op = "put_kv"
    /\ Requests("kv_commit") # {}
    /\ Last("get_tso") > Last("kv_prewrite")
    /\ call.rng = <<0, 2>>
    /\ call.gen_key = "distinct"

\* the indices of a put_kv range
RangeOf(rng) == {i \in Idx : rng[1] <= i /\ i < rng[2]}

\* the generator gives every index of the range a key of its own
DistinctKeys(c) ==
    \A i, j \in RangeOf(c.rng) :
        gen_key(c.gen_key, i) = gen_key(c.gen_key, j) => i = j

\* every key of the range lies in the region of the first key
InRegionOfFirst(c) ==
    \A i \in RangeOf(c.rng) :
        get_region_info(regions, gen_key(c.gen_key, i)) =
            get_region_info(regions, gen_key(c.gen_key, c.rng[1]))

\* what a snapshot at ts shows of the range: value_fn(i) at key_fn(i)
ShowsRange(c, ts) ==
    \A i \in RangeOf(c.rng) :
        snapshot_get(mvcc, gen_key(c.gen_key, i), ts) = gen_val(c.gen_val, i)

----------------------------------------------------------------------------
(* The cluster underneath the administrative operations: the metadata      *)
(* service's region and the engines change while the test thread runs      *)

\* region versions are 1..MaxVer
MaxVer == 2

\* the test thread is between calls or inside one: the behaviour is
\* followed up to the return (or panic) of the call
Running == pc \notin {"done", "panicked", "dropped"}

\* wait_region_replicated's condition, at one instant: the region over key
\* has at least replica_cnt peers and every peer's engine holds the shard
\* at the region's current (id, version)
ReplicatedIn(rs, es, key, replica_cnt) ==
    \E id \in get_region_info(rs, key) :
        /\ Cardinality(rs[id].peers) >= replica_cnt
        /\ \A p \in rs[id].peers : Shard(id, rs[id].version) \in es[p]

\* the history a call keeps for the properties: whether the condition of
\* wait_region_replicated has held at some instant since the call began
Observe(c, rs, es) ==
    IF c.op = "wait_region_replicated"
    THEN [c EXCEPT !.seen = @ \/ ReplicatedIn(rs, es, c.key, c.replica_cnt)]
    ELSE c

EnvStep ==
    /\ call' = Observe(call, regions', engines')
    /\ UNCHANGED <<regVars, pc, tso, elapsed, sent, mvcc>>

\* the engine of a peer applies a snapshot or a split: its shard of region
\* id moves to a later version, no older than the version the metadata
\* service has been told of
EngineApply(s, id, ver) ==
    /\ Running /\ StoreRuns(s)
    /\ s \in regions[id].peers
    /\ ver >= regions[id].version
    /\ \A sh \in engines[s] : sh.id = id => sh.ver < ver
    /\ engines' = [engines EXCEPT
                      ![s] = {sh \in @ : sh.id # id} \cup {Shard(id, ver)}]
    /\ UNCHANGED regions
    /\ EnvStep

\* an engine destroys the shard of a region its store is no longer a peer of
EngineDestroy(s, id) ==
    /\ Running /\ StoreRuns(s)
    /\ s \notin regions[id].peers
    /\ \E sh \in engines[s] : sh.id = id
    /\ engines' = [engines EXCEPT ![s] = {sh \in @ : sh.id # id}]
    /\ UNCHANGED regions
    /\ EnvStep

\* a heartbeat reports a split: the region's version in the metadata
\* service moves to the version a peer's engine already has
PdVersion(id) ==
    /\ Running
    /\ \E p \in regions[id].peers :
           StoreRuns(p) /\ Shard(id, regions[id].version + 1) \in engines[p]
    /\ regions' = [regions EXCEPT ![id].version = @ + 1]
    /\ UNCHANGED engines
    /\ EnvStep

\* a scheduled membership change is reported: a peer is added on store s
PdAddPeer(id, s) ==
    /\ Running
    /\ s \notin regions[id].peers
    /\ regions' = [regions EXCEPT ![id].peers = @ \cup {s}]
    /\ UNCHANGED engines
    /\ EnvStep

\* a peer that is not the leader is removed from the region; a region
\* keeps at least one peer
PdRemovePeer(id, s) ==
    /\ Running
    /\ s \in regions[id].peers
    /\ s # regions[id].leader
    /\ regions[id].peers # {s}
    /\ regions' = [regions EXCEPT ![id].peers = @ \ {s}]
    /\ UNCHANGED engines
    /\ EnvStep

\* an election: another peer becomes the leader
PdLeader(id, s) ==
    /\ Running /\ StoreRuns(s)
    /\ s \in regions[id].peers
    /\ s # regions[id].leader
    /\ regions' = [regions EXCEPT ![id].leader = s]
    /\ UNCHANGED engines
    /\ EnvStep

Stores == DOMAIN engines

RegionIds == DOMAIN regions

----------------------------------------------------------------------------
(* wait_region_replicated *)

WaitPolls == 10
DrainPolls == 30

NoRegionInfo == [id |-> 0, version |-> 0, peers |-> {}, leader |-> 0]

\* the locals of an administrative call
AdminCall(op) ==
    [op |-> op, node_id |-> 0, store_id |-> 0, key |-> 0, replica_cnt |-> 0,
     polls |-> 0, info |-> NoRegionInfo, todo |-> {}, checked |-> {},
     listed |-> {}, seen |-> FALSE, looked |-> EmptyMap,
     confirmed |-> EmptyMap, why |-> ""]

\* get_server_node_id: the node ids whose server reports store_id
get_server_node_id(store_id) ==
    {n \in DOMAIN servers : servers[n].store_id = store_id}

\* kvengine get_shard_with_ver(id, ver).is_ok() on the engine of a store
get_shard_with_ver(es, store_id, id, ver) == Shard(id, ver) \in es[store_id]

\* an all() that is satisfied by the first peer that passes
any_applied_step(ok, rest) ==
    IF ok THEN "true" ELSE IF rest = {} THEN "false" ELSE "next"

\* one step of peers.iter().all(..): "false" at the first peer that fails,
\* "true" after the last one passed
all_applied_step(ok, rest) ==
    IF ~ok THEN "false" ELSE IF rest = {} THEN "true" ELSE "next"

CallWaitRegionReplicated(key, replica_cnt) ==
    /\ Callable
    /\ call' = Observe([AdminCall("wait_region_replicated") EXCEPT
                           !.key = key, !.replica_cnt = replica_cnt],
                       regions, engines)
    /\ pc' = "wait_poll"
    /\ sent' = <<>>
    /\ UNCHANGED <<regVars, tso, elapsed, envVars>>

\* the head of one round of the loop: region info and the peer count
WaitPoll ==
    /\ pc = "wait_poll"
    /\ IF call.polls >= WaitPolls THEN Panic("not_replicated")
       ELSE LET found == get_region_info(regions, call.key)
            IN  IF found = {} THEN Panic("no_region")
                ELSE LET id   == CHOOSE x \in found : TRUE
                         info == [id |-> id, version |-> regions[id].version,
                                  peers |-> regions[id].peers,
                                  leader |-> regions[id].leader]
                     IN  IF Cardinality(info.peers) >= call.replica_cnt
                         THEN /\ pc' = IF info.peers = {} THEN "done" ELSE "wait_check"
                              /\ call' = [call EXCEPT !.info = info,
                                                      !.todo = info.peers,
                                                      !.checked = {}]
                         ELSE /\ pc' = "wait_poll"
                              /\ call' = [call EXCEPT !.info = info,
                                                      !.polls = @ + 1]
    /\ UNCHANGED <<regVars, tso, elapsed, sent, envVars>>

\* the closure of all() on the next peer of the region info
WaitCheck ==
    /\ pc = "wait_check"
    /\ \E p \in call.todo :
          IF get_server_node_id(p) = {} THEN Panic("server_not_found")
          ELSE LET ok   == get_shard_with_ver(engines, p, call.info.id,
                                              call.info.version)
                   rest == call.todo \ {p}
                   step == all_applied_step(ok, rest)
                   hist == IF ok THEN call.checked \cup {p} ELSE call.checked
               IN  /\ pc' = CASE step = "true" -> "done"
                              [] step = "next" -> "wait_check"
                              [] OTHER -> "wait_poll"
                   /\ call' = [call EXCEPT
                                  !.todo = rest, !.checked = hist,
                                  !.polls = IF step = "false" THEN @ + 1 ELSE @]
    /\ UNCHANGED <<regVars, tso, elapsed, sent, envVars>>

----------------------------------------------------------------------------
(* remove_node_peers *)

\* a post-drain wait that returns when its polls are used up
drain_poll_gives_up(shards, polls) ==
    IF polls < DrainPolls
    THEN IF shards = {} THEN "return" ELSE "sleep"
    ELSE "return"

\* the post-drain loop: 30 polls of get_all_shard_id_vers().is_empty(),
\* then panic
drain_poll(shards, polls) ==
    IF polls < DrainPolls
    THEN IF shards = {} THEN "return" ELSE "sleep"
    ELSE "panic"

\* a target search that takes any peer of the region, the node's own too
transfer_targets_any(info, store_id) == info.peers

\* region.get_peers().iter().find(|x| x.store_id != store_id): the peers a
\* transfer can go to (the first of them in the region's peer order)
transfer_targets(info, store_id) == info.peers \ {store_id}

\* servers.get(&node_id).unwrap(), the store id and the shard list
CallRemoveNodePeers(node_id) ==
    /\ Callable
    /\ sent' = <<>>
    /\ IF node_id \notin DOMAIN servers
       THEN /\ pc' = "panicked"
            /\ call' = [AdminCall("remove_node_peers") EXCEPT
                           !.node_id = node_id, !.why = "no_server"]
       ELSE LET store_id == servers[node_id].store_id
            IN  /\ pc' = "drain_loop"
                /\ call' = [AdminCall("remove_node_peers") EXCEPT
                               !.node_id = node_id, !.store_id = store_id,
                               !.listed = engines[store_id],
                               !.todo = engines[store_id]]
    /\ UNCHANGED <<regVars, tso, elapsed, envVars>>

\* the head of the loop over the shard list: get_region_leader_by_id
DrainLookup ==
    /\ pc = "drain_loop"
    /\ IF call.todo = {}
       THEN pc' = "drain_poll" /\ call' = [call EXCEPT !.polls = 0]
       ELSE \E sh \in call.todo :
               IF sh.id \notin DOMAIN regions \/ regions[sh.id].leader = 0
               THEN Panic("no_region_leader")
               ELSE /\ call' = [call EXCEPT
                                   !.info = [id |-> sh.id,
                                             version |-> regions[sh.id].version,
                                             peers |-> regions[sh.id].peers,
                                             leader |-> regions[sh.id].leader],
                                   !.looked = Insert(@, sh.id, regions[sh.id].leader),
                                   !.confirmed = Insert(@, sh.id, regions[sh.id].leader),
                                   !.todo = @ \ {sh}]
                    /\ pc' = IF regions[sh.id].leader = call.store_id
                             THEN "drain_transfer" ELSE "drain_remove"
    /\ UNCHANGED <<regVars, tso, elapsed, sent, envVars>>

\* transfer_leader to a peer on another store and region_leader_must_be:
\* the call returns once the metadata service reports the target as leader
DrainTransfer ==
    /\ pc = "drain_transfer"
    /\ LET others == transfer_targets(call.info, call.store_id)
       IN  IF others = {}
           THEN Panic("no_target") /\ UNCHANGED <<sent, regions>>
           ELSE \E target \in others :
                   /\ sent' = Append(sent, Rpc("transfer_leader",
                                               [region_id |-> call.info.id,
                                                store_id |-> target]))
                   /\ \/ /\ target \in regions[call.info.id].peers
                         /\ StoreRuns(target)
                         /\ regions' = [regions EXCEPT ![call.info.id].leader = target]
                         /\ pc' = "drain_remove"
                         /\ call' = [call EXCEPT !.confirmed[call.info.id] = target]
                      \/ Panic("leader_not_transferred") /\ UNCHANGED regions
    /\ UNCHANGED <<regVars, tso, elapsed, engines, mvcc>>

\* find_peer on the region read at the head of the round, must_remove_peer:
\* the call returns once the metadata service reports the peer gone
DrainRemove ==
    /\ pc = "drain_remove"
    /\ IF call.store_id \in call.info.peers
       THEN /\ sent' = Append(sent, Rpc("remove_peer",
                                        [region_id |-> call.info.id,
                                         store_id |-> call.store_id]))
            /\ \/ /\ regions[call.info.id].leader # call.store_id
                  /\ regions' = [regions EXCEPT ![call.info.id].peers =
                                                    @ \ {call.store_id}]
                  /\ pc' = "drain_loop"
                  /\ UNCHANGED call
               \/ Panic("peer_not_removed") /\ UNCHANGED regions
       ELSE /\ pc' = "drain_loop"
            /\ UNCHANGED <<call, sent, regions>>
    /\ UNCHANGED <<regVars, tso, elapsed, engines, mvcc>>

\* one round of the post-drain loop
DrainPoll ==
    /\ pc = "drain_poll"
    /\ LET step == drain_poll(engines[call.store_id], call.polls)
       IN  CASE step = "return" -> pc' = "done" /\ UNCHANGED call
             [] step = "sleep"  -> pc' = "drain_poll"
                                   /\ call' = [call EXCEPT !.polls = @ + 1]
             [] OTHER           -> Panic("not_empty")
    /\ UNCHANGED <<regVars, tso, elapsed, sent, envVars>>

----------------------------------------------------------------------------
(* Administrative calls on a live cluster: specification AdminSpec *)

AdminNext ==
    \/ \E s \in Stores, id \in RegionIds, ver \in 1..MaxVer : EngineApply(s, id, ver)
    \/ \E s \in Stores, id \in RegionIds : EngineDestroy(s, id)
    \/ \E id \in RegionIds : PdVersion(id)
    \/ \E s \in Stores, id \in RegionIds : PdAddPeer(id, s)
    \/ \E s \in Stores, id \in RegionIds : PdRemovePeer(id, s)
    \/ \E s \in Stores, id \in RegionIds : PdLeader(id, s)
    \/ \E key \in {1}, replica_cnt \in 1..Len(ClusterNodes) :
           CallWaitRegionReplicated(key, replica_cnt)
    \/ WaitPoll
    \/ WaitCheck
    \/ \E node_id \in 1..Len(ClusterNodes) : CallRemoveNodePeers(node_id)
    \/ DrainLookup
    \/ DrainTransfer
    \/ DrainRemove
    \/ DrainPoll

\* the administrative calls are followed on the boot region
AdminInit == ClusterInit({"whole"})

AdminSpec == AdminInit /\ [][AdminNext]_vars

----------------------------------------------------------------------------
(* split *)

SplitTimes == 10

\* the requests of a call in the order of their first send: a request that
\* repeats an earlier one is a re-send
Record(s, r) == IF \E i \in 1..Len(s) : s[i] = r THEN s ELSE Append(s, r)

split_request(ctx, key) == [context |-> ctx, split_key |-> key]

\* the region id the split of a region gives to the new region
new_region_id(rs) == (CHOOSE id \in DOMAIN rs : \A x \in DOMAIN rs : x <= id) + 1

\* the regions after region id was split at key: id keeps the keys below
\* key, the new region has the keys from key on, both at the next version
split_at(rs, id, key) ==
    LET ver == rs[id].version + 1
    IN  [rs EXCEPT ![id].end = key, ![id].version = ver]
        @@ (new_region_id(rs) :> [rs[id] EXCEPT !.start = key, !.version = ver])

\* the engines after that split: every running peer has both shards
split_shards(rs, es, id) ==
    [s \in DOMAIN es |->
        IF s \in rs[id].peers /\ StoreRuns(s)
        THEN {sh \in es[s] : sh.id # id}
             \cup {Shard(id, rs[id].version + 1),
                   Shard(new_region_id(rs), rs[id].version + 1)}
        ELSE es[s]]

\* the outcomes of one split_region request: a region error when the region
\* cannot serve it or is busy; otherwise the region is split at the key (a
\* key that is the region's start already splits nothing)
split_service(rs, es, req) ==
    LET id == req.context.region_id
        busy == {[region_error |-> TRUE, rs |-> rs, es |-> es]}
    IN  IF ~serves(rs, req.context, <<req.split_key>>) THEN busy
        ELSE busy \cup
             {IF req.split_key = rs[id].start
              THEN [region_error |-> FALSE, rs |-> rs, es |-> es]
              ELSE [region_error |-> FALSE, rs |-> split_at(rs, id, req.split_key),
                    es |-> split_shards(rs, es, id)]}

\* a loop that goes on after an attempt without region error
split_goes_on(region_error, attempts) ==
    IF attempts < SplitTimes THEN "again" ELSE "panic"

\* what follows the response of an attempt: return on the first response
\* without region error, another attempt while fewer than 10 were made,
\* panic after the tenth
split_step(region_error, attempts) ==
    IF ~region_error THEN "return"
    ELSE IF attempts < SplitTimes THEN "again" ELSE "panic"

CallSplit(key) ==
    /\ Callable
    /\ call' = [FacadeCall("split") EXCEPT !.pk = key, !.phase = "split"]
    /\ sent' = <<>>
    /\ pc' = "split_ctx"
    /\ UNCHANGED <<regVars, tso, elapsed, envVars>>

\* the head of an attempt: new_rpc_context(key) and the leader's client
SplitResolve ==
    /\ pc = "split_ctx"
    /\ LET got == new_rpc_context(regions, call.pk)
       IN  /\ sent' = Record(sent, Rpc("get_region_info", call.pk))
           /\ IF ~got.ok THEN Panic(got.why)
              ELSE IF ~has_channel(got.ctx.store_id) THEN Panic("no_channel")
              ELSE /\ pc' = "split_send"
                   /\ call' = [call EXCEPT !.ctx = got.ctx, !.resolved = @ + 1]
    /\ UNCHANGED <<regVars, tso, elapsed, envVars>>

\* client.split_region(&split_req).unwrap() and the test of the response
SplitSend ==
    /\ pc = "split_send"
    /\ LET req == split_request(call.ctx, call.pk)
       IN  /\ sent' = Record(sent, Rpc("split_region", req))
           /\ \/ \E out \in split_service(regions, engines, req) :
                    LET attempts == call.tried + 1
                        step == split_step(out.region_error, attempts)
                    IN  /\ regions' = out.rs
                        /\ engines' = out.es
                        /\ pc' = CASE step = "return" -> "done"
                                   [] step = "again" -> "split_ctx"
                                   [] OTHER -> "panicked"
                        /\ call' = [call EXCEPT
                              !.resp = [region_error |-> out.region_error,
                                        error |-> FALSE],
                              !.tried = attempts,
                              !.sends = @ + 1,
                              !.region_errors =
                                  IF out.region_error THEN @ + 1 ELSE @,
                              !.why = IF step = "panic" THEN "failed_to_split"
                                      ELSE @]
              \/ RpcFailed /\ UNCHANGED <<regions, engines>>
    /\ UNCHANGED <<regVars, tso, elapsed, mvcc>>

----------------------------------------------------------------------------
(* Calls keyed by a user key on a live cluster: specification LiveSpec *)

\* kv_prewrite, kv_commit and split, with elections and version changes of
\* the regions going on underneath
LiveNext ==
    \/ \E s \in Stores, id \in RegionIds, ver \in 1..MaxVer : EngineApply(s, id, ver)
    \/ \E id \in RegionIds : PdVersion(id)
    \/ \E s \in Stores, id \in RegionIds : PdLeader(id, s)
    \/ CallKvPrewrite(<<Put(1, 10)>>, 1, 1)
    \/ CallKvCommit(<<1>>, 1, 2)
    \/ \E key \in {1, SplitKey} : CallSplit(key)
    \/ SplitResolve
    \/ SplitSend
    \/ FacadeSteps

LiveSpec == AdminInit /\ [][LiveNext]_vars

----------------------------------------------------------------------------
(* The accessors by node id and by store id *)

\* get_kvengine, get_rfengine, get_sst_importer, send_raft_command: each
\* starts with servers.get(&node_id).unwrap()
NodeAccessors ==
    {"get_kvengine", "get_rfengine", "get_sst_importer", "send_raft_command"}

\* get_kv_client is get_client_channel: channels.get(&store_id).unwrap()
StoreAccessors == {"get_kv_client", "get_client_channel"}

CallNodeAccessor(op, node_id) ==
    /\ Callable
    /\ sent' = <<>>
    /\ IF node_id \in DOMAIN servers
       THEN /\ pc' = "done"
            /\ call' = [AdminCall(op) EXCEPT
                           !.node_id = node_id,
                           !.store_id = servers[node_id].store_id]
       ELSE /\ pc' = "panicked"
            /\ call' = [AdminCall(op) EXCEPT !.node_id = node_id,
                                             !.why = "no_server"]
    /\ UNCHANGED <<regVars, tso, elapsed, envVars>>

\* get_snap: get_kvengine(node_id), new_rpc_context(key) and
\* get_snap_access(region_id).unwrap() on that engine
CallGetSnap(node_id, key) ==
    /\ Callable
    /\ LET c   == [AdminCall("get_snap") EXCEPT !.node_id = node_id, !.key = key]
           got == new_rpc_context(regions, key)
       IN  IF node_id \notin DOMAIN servers
           THEN /\ pc' = "panicked"
                /\ call' = [c EXCEPT !.why = "no_server"]
                /\ sent' = <<>>
           ELSE /\ sent' = <<Rpc("get_region_info", key)>>
                /\ IF ~got.ok
                   THEN /\ pc' = "panicked"
                        /\ call' = [c EXCEPT !.why = got.why]
                   ELSE IF \A sh \in engines[servers[node_id].store_id] :
                               sh.id # got.ctx.region_id
                   THEN /\ pc' = "panicked"
                        /\ call' = [c EXCEPT !.why = "no_shard"]
                   ELSE /\ pc' = "done"
                        /\ call' = [c EXCEPT
                                       !.store_id = servers[node_id].store_id]
    /\ UNCHANGED <<regVars, tso, elapsed, envVars>>

CallStoreAccessor(op, store_id) ==
    /\ Callable
    /\ sent' = <<>>
    /\ IF has_channel(store_id)
       THEN /\ pc' = "done"
            /\ call' = [AdminCall(op) EXCEPT !.store_id = store_id]
       ELSE /\ pc' = "panicked"
            /\ call' = [AdminCall(op) EXCEPT !.store_id = store_id,
                                             !.why = "no_channel"]
    /\ UNCHANGED <<regVars, tso, elapsed, envVars>>

----------------------------------------------------------------------------
(* Every call of the harness on a live cluster: specification ClusterSpec *)

ClusterNext ==
    \/ LiveNext
    \/ \E s \in Stores, id \in RegionIds : EngineDestroy(s, id)
    \/ \E node_id \in 1..Len(ClusterNodes) : StopNode(node_id)
    \/ \E start \in {0}, end \in {1, 2} : CallPutKv(start, end, "distinct", "val")
    \/ PutKvCommit
    \/ \E op \in NodeAccessors, node_id \in 1..Len(ClusterNodes) :
           CallNodeAccessor(op, node_id)
    \/ \E node_id \in 1..Len(ClusterNodes), key \in {1} : CallGetSnap(node_id, key)
    \/ \E op \in StoreAccessors, store_id \in 1..Len(ClusterNodes) :
           CallStoreAccessor(op, store_id)
    \/ \E key \in {1}, replica_cnt \in 1..(Len(ClusterNodes) + 1) :
           CallWaitRegionReplicated(key, replica_cnt)
    \/ WaitPoll
    \/ WaitCheck
    \/ \E node_id \in 1..Len(ClusterNodes) : CallRemoveNodePeers(node_id)
    \/ DrainLookup
    \/ DrainTransfer
    \/ DrainRemove
    \/ DrainPoll

ClusterSpec == AdminInit /\ [][ClusterNext]_vars

----------------------------------------------------------------------------
(* Properties of the calls keyed by a user key *)

KeyedCalls == {"kv_prewrite", "kv_commit", "put_kv", "split"}

\* C13: every send of a request keyed by a user key, a re-send by the retry
\* driver included, is made with a context resolved from the metadata
\* service for that send: the call has resolved a context at least as often
\* as it has sent a request.
C13_FreshContext ==
    call.op \in KeyedCalls => call.sends <= call.resolved

\* the attempts of split: at most 10, a context resolved before each send,
\* every response before the last one had a region error, and the call
\* returned on the first response without one
SplitAttempts ==
    /\ call.tried <= SplitTimes
    /\ call.sends = IF call.why = "rpc_failed" THEN call.tried + 1 ELSE call.tried
    /\ call.resolved = IF pc = "split_send" THEN call.sends + 1 ELSE call.sends
    /\ call.sends <= SplitTimes
    /\ pc = "done" => /\ ~call.resp.region_error
                      /\ call.region_errors = call.tried - 1
    /\ pc # "done" => call.region_errors = call.tried
    /\ (pc \in {"split_ctx", "split_send"}) => call.tried < SplitTimes

\* C14 as claimed: split makes at most 10 attempts, each with a context
\* resolved for it, returns on the first response without region error, and
\* has panicked exactly when 10 attempts reported a region error.
C14_SplitPanicsIff ==
    call.op = "split" =>
        /\ SplitAttempts
        /\ pc = "panicked" <=> call.region_errors = SplitTimes

\* C14 as amended: the same, with the panic "failed to split key" exactly
\* when 10 attempts reported a region error; any other panic of split comes
\* from an unwrap of an attempt (no region or no leader for the key, no
\* channel to the leader's store, a failed RPC), before 10 region errors.
C14_SplitOutcome ==
    call.op = "split" =>
        /\ SplitAttempts
        /\ (pc = "panicked" /\ call.why = "failed_to_split")
               <=> call.region_errors = SplitTimes
        /\ (pc = "panicked" /\ call.why # "failed_to_split") =>
               /\ call.why \in {"no_region", "no_leader", "no_channel", "rpc_failed"}
               /\ call.region_errors < SplitTimes

\* C14's case: split returned on its third attempt
C14_Witness ==
    /\ call.op = "split" /\ pc = "done"
    /\ call.tried = 3
    /\ call.resolved = 3

----------------------------------------------------------------------------
(* Properties of the lookups in the two registry maps *)

\* the calls that begin with servers.get(&node_id).unwrap()
NodeAddressed == NodeAccessors \cup {"get_snap", "remove_node_peers"}

\* no registered server reports store_id
Unregistered(store_id) == \A n \in DOMAIN servers : servers[n].store_id # store_id

\* the key a call at its context resolution resolves
ResolvedKey ==
    IF pc = "ctx" /\ call.phase = "commit" THEN Head(call.keys) ELSE call.pk

\* the test thread is about to resolve a context and the metadata service
\* names a leader whose store has no channel
LeaderWithoutChannel ==
    /\ pc \in {"ctx", "split_ctx"}
    /\ ~(call.phase = "commit" /\ call.keys = <<>>)
    /\ LET got == new_rpc_context(regions, ResolvedKey)
       IN  got.ok /\ got.ctx.store_id \notin DOMAIN channels

\* a call addressed to a node id that is not in the server map, or to a
\* store id that is not in the channel map, has panicked at once and sent
\* nothing; kv_prewrite, kv_commit and split panic, without sending, in the
\* context resolution that finds the leader on a store without channel; and
\* no panic changes either map
MissingEntriesFatal ==
    /\ [](pc # "idle" =>
             /\ (call.op \in NodeAddressed /\ call.node_id \notin DOMAIN servers) =>
                    pc = "panicked" /\ call.why = "no_server" /\ sent = <<>>
             /\ (call.op \in StoreAccessors /\ call.store_id \notin DOMAIN channels) =>
                    pc = "panicked" /\ call.why = "no_channel" /\ sent = <<>>)
    /\ [][(LeaderWithoutChannel /\ pc' # pc) =>
              /\ pc' = "panicked"
              /\ call'.why = "no_channel"
              /\ call'.sends = call.sends]_vars
    /\ [][(pc' = "panicked" /\ pc # "panicked") =>
              (servers' = servers /\ channels' = channels)]_vars

\* the test thread ends a round of wait_region_replicated with a sleep, or
\* returns from it
WaitRoundEnds ==
    /\ call.op = "wait_region_replicated"
    /\ pc \in {"wait_poll", "wait_check"}
    /\ call'.polls = call.polls + 1 \/ pc' = "done"

\* C16 as claimed: missing entries are fatal at once, and a round of
\* wait_region_replicated that read a region with a peer on an unregistered
\* store ends in the panic, neither in a sleep and another round nor in a
\* return.
C16_MissingEntriesImmediate ==
    /\ MissingEntriesFatal
    /\ [][WaitRoundEnds =>
              \A p \in call'.info.peers : ~Unregistered(p)]_vars

\* C16 as amended: missing entries are fatal at once for the accessors,
\* remove_node_peers, kv_prewrite, kv_commit and split; wait_region_replicated
\* panics with "server not found" only in a round whose region info had
\* enough peers and whose scan reached a peer on an unregistered store, every
\* peer scanned before it holding the shard; it panics there when only such
\* peers are left to scan, and it never returns from such a round.
C16_MissingEntriesFatal ==
    /\ MissingEntriesFatal
    /\ [](call.op = "wait_region_replicated" =>
             /\ pc = "done" => \A p \in call.info.peers : ~Unregistered(p)
             /\ (pc = "panicked" /\ call.why = "server_not_found") =>
                    /\ \E p \in call.todo : Unregistered(p)
                    /\ Cardinality(call.info.peers) >= call.replica_cnt
                    /\ call.checked = call.info.peers \ call.todo)
    /\ [][(/\ call.op = "wait_region_replicated" /\ pc = "wait_check"
           /\ call'.todo # call.todo \/ pc' # pc
           /\ \A p \in call.todo : Unregistered(p)) =>
              (pc' = "panicked" /\ call'.why = "server_not_found")]_vars

\* C16's case: wait_region_replicated went through a round with a peer on
\* an unregistered store, slept, and panicked on that peer in a later round
C16_Witness ==
    /\ call.op = "wait_region_replicated"
    /\ pc = "panicked" /\ call.why = "server_not_found"
    /\ call.polls > 0

\* the calls that take the cluster by shared reference and work on regions
FrameCalls == KeyedCalls \cup {"remove_node_peers", "wait_region_replicated"}

\* the entries of the two maps that belong to node m in registry r
EntriesOf(r, m) ==
    IF m \in DOMAIN r.servers
    THEN LET store_id == r.servers[m].store_id
         IN  [server  |-> {r.servers[m]},
              channel |-> IF store_id \in DOMAIN r.channels
                          THEN {r.channels[store_id]} ELSE {}]
    ELSE [server |-> {}, channel |-> {}]

\* C19: stop_node(n) leaves the server-map entry and the channel-map entry
\* of every other node unchanged; no step of remove_node_peers, split,
\* wait_region_replicated, kv_prewrite, kv_commit or put_kv changes either
\* map; and the node is still registered when remove_node_peers(n) has
\* returned.
C19_RegistryFrame ==
    /\ [](call.op = "stop_node" =>
             \A m \in Nodes \ {call.node_id} :
                 EntriesOf(Reg, m) = EntriesOf(call.pre, m))
    /\ [][call'.op \in FrameCalls => UNCHANGED <<servers, channels>>]_vars
    /\ [](call.op = "remove_node_peers" /\ pc = "done" =>
             call.node_id \in get_nodes(Reg))

\* C19's case: remove_node_peers(n) returned after it had peers to remove,
\* on a cluster where stop_node had taken the other node out before
C19_Witness ==
    /\ call.op = "remove_node_peers" /\ pc = "done"
    /\ call.listed # {}
    /\ get_nodes(Reg) = {call.node_id}
    /\ get_stores(Reg) = {call.store_id}

----------------------------------------------------------------------------
(* Properties of the administrative operations *)

\* C4: when remove_node_peers(n) returns, the engine of node n lists no
\* shard and fewer than 30 polls had found it non-empty; when the 30 polls
\* all found a shard, the call has panicked.
C4_DrainedOnReturn ==
    call.op = "remove_node_peers" =>
        /\ pc = "done" => /\ engines[call.store_id] = {}
                          /\ call.polls < DrainPolls
        /\ (pc = "drain_poll" /\ call.polls = DrainPolls) =>
               drain_poll(engines[call.store_id], call.polls) = "panic"
        /\ (pc = "panicked" /\ call.why = "not_empty") => call.polls = DrainPolls

\* C4's case: a drain of a node that held a shard returned after waiting
\* for the engine to drop it
C4_Witness ==
    /\ call.op = "remove_node_peers"
    /\ pc = "done"
    /\ call.listed # {}
    /\ call.polls > 0
    /\ Rpc("remove_peer", [region_id |-> 1, store_id |-> call.store_id]) \in
           {sent[i] : i \in 1..Len(sent)}

\* C12: in remove_node_peers(n) a transfer never targets n's store; peer
\* removal is requested for a region only for the peer on n's store, and
\* when the lookup of that region reported the leader on n's store, only
\* after a transfer to another store was requested and the metadata service
\* confirmed that store as the leader: the leader last confirmed to the call
\* is never n's store when removal is requested.
C12_DrainOrdering ==
    call.op = "remove_node_peers" =>
        /\ \A i \in Requests("transfer_leader") :
               /\ sent[i].req.store_id # call.store_id
               /\ call.looked[sent[i].req.region_id] = call.store_id
        /\ \A i \in Requests("remove_peer") :
               LET id == sent[i].req.region_id
               IN  /\ sent[i].req.store_id = call.store_id
                   /\ call.confirmed[id] # call.store_id
                   /\ call.looked[id] = call.store_id =>
                          \E k \in Requests("transfer_leader") :
                              /\ k < i
                              /\ sent[k].req.region_id = id
                              /\ sent[k].req.store_id = call.confirmed[id]
        /\ pc = "drain_remove" => call.confirmed[call.info.id] # call.store_id

\* C12's case: the node held the leader, the leader was moved and the peer
\* removed, and the drain returned
C12_Witness ==
    /\ call.op = "remove_node_peers" /\ pc = "done"
    /\ \E id \in DOMAIN call.looked : call.looked[id] = call.store_id
    /\ Requests("transfer_leader") # {}
    /\ Requests("remove_peer") # {}

\* C5 as claimed: wait_region_replicated returns only if at some instant of
\* the call the region had at least r peers and every peer's engine held
\* the shard at the region's current (id, version).
C5_ReplicatedAtAnInstant ==
    (call.op = "wait_region_replicated" /\ pc = "done") => call.seen

\* C5 as amended: wait_region_replicated returns only if the region info
\* read in its last round had at least r peers and each peer of that info,
\* when its turn came, had an engine holding the shard at that info's
\* (id, version).
C5_ReplicatedPeerByPeer ==
    (call.op = "wait_region_replicated" /\ pc = "done") =>
        /\ Cardinality(call.info.peers) >= call.replica_cnt
        /\ call.checked = call.info.peers
        /\ call.polls < WaitPolls

\* C5's case: the call returned although the peers never all held the
\* shard at once
C5_Witness ==
    /\ call.op = "wait_region_replicated"
    /\ pc = "done"
    /\ call.replica_cnt = 2
    /\ ~call.seen

----------------------------------------------------------------------------
(* Endpoint derivation over the padded node ids: specification EndpointSpec *)

\* the width of {:04} in node_addr and node_status_addr
PadWidth == 4

\* the node ids that fit the padded width: 0..9999
EndpointIds == 0..(10^PadWidth - 1)

\* the node ids started next to the first one: the ends of the range
PairIds == {0, 10^PadWidth - 1}

RECURSIVE port_number(_)
\* the port of an address "127.0.0.1:<digits>" as a number
port_number(d) ==
    IF d = <<>> THEN 0
    ELSE 10 * port_number(SubSeq(d, 1, Len(d) - 1)) + d[Len(d)]

\* new(vec![n], |_, _| {}) for one node id of the padded range
EndpointInit ==
    /\ \E n \in EndpointIds : Constructed(<<n>>, "noop")
    /\ ThreadIdle
    /\ tso = 0
    /\ NoRegions

EndpointNext ==
    \E node_id \in PairIds, f \in UpdateConfs : StartNode(node_id, f)

EndpointSpec == EndpointInit /\ [][EndpointNext]_vars

\* C20: for the registered node ids (all within 0..9999) the client port is
\* 20000 + n and the status port is 30000 + n, distinct node ids have
\* distinct client addresses and distinct status addresses, no client
\* address equals a status address, and the channel registered for node n
\* is the client address of n's baseline configuration.
C20_EndpointsCollisionFree ==
    \A n \in get_nodes(Reg) :
        LET baseline == new_test_config("tmp", n)
        IN  /\ n \in EndpointIds
            /\ port_number(baseline.addr.port) = 20000 + n
            /\ port_number(baseline.status_addr.port) = 30000 + n
            /\ servers[n].config.addr = baseline.addr
            /\ servers[n].store_id \in get_stores(Reg)
            /\ channels[servers[n].store_id] = baseline.addr
            /\ \A m \in get_nodes(Reg) :
                   /\ m # n => /\ node_addr(m) # node_addr(n)
                               /\ node_status_addr(m) # node_status_addr(n)
                   /\ node_addr(m) # node_status_addr(n)

\* C20's case: the two ends of the range and a node id with fewer than four
\* digits are registered together
C20_Witness ==
    /\ {0, 10^PadWidth - 1} \subseteq get_nodes(Reg)
    /\ \E n \in get_nodes(Reg) : 0 < n /\ n < 10^(PadWidth - 1)
    /\ Cardinality(get_stores(Reg)) = Cardinality(get_nodes(Reg))

====
